---- MODULE Spec2Model ----
(***************************************************************************)
(* Library management: the Library / LibrarySystem backend (backend.py)    *)
(* and the two front ends that drive it, the LibrarySystem menu handlers   *)
(* (CLI) and the MainWidget / LoginRegisterWidget handlers (library_gui).  *)
(*                                                                         *)
(* Days are integers: a datetime is modelled by its .date(), counted in    *)
(* days from the start of the run.                                         *)
(***************************************************************************)
EXTENDS Integers, Sequences, FiniteSets, TLC

\* ---------------------------------------------------------------- bounds
MaxCopies == 2        \* cap on total_copies and available_copies
MaxDebt == 1          \* cap on how far below 0 a copy counter is followed
MaxQueue == 2         \* cap on the length of one reservation queue
MaxReserves == 3      \* cap on the number of successful reservations
MaxLate == 2          \* the clock is followed up to LoanDays + MaxLate
SeedCount == 6        \* how many of its ten titles seed_library shelves

\* ------------------------------------------------------ program constants
default_borrow_limit == 5
LoanDays == 14
FinePerDay == 1

\* ------------------------------------------------------------ input sets
None == "None"
NoDate == -1
UserIds == {"u1", "u2"}
Names == {"Ann", "Bob"}
Passwords == {"pw1", "pw2"}
ISBNs == {"i1", "i2"}
Titles == {"Dune"}
Authors == {"Herbert"}
Genres == {"Fiction", "Fantasy"}
CliCounts == {1, 2}
SignedCounts == {-1, 1}
GuiCounts == {1}
ClockSteps == {1, LoanDays}
SearchTerms == {"", "dUN", "Dane", "HERB", "zz"}
AuthChoices == {"1", "2", "3", "0"}
MainChoices == {"1", "2", "3", "4", "5", "6", "7", "8", "9", "0"}
MenuISBNs == {"9780061120084"}
MenuSearches == {<<"author", "HERB">>, <<"isbn", "i1">>, <<"genre", "zz">>}

VARIABLES
    books,          \* Library._books: isbn -> Book record
    book_order,     \* insertion order of the keys of Library._books
    reservations,   \* Library._reservations: isbn -> queue of entries
    users,          \* LibrarySystem.users: user_id -> User record
    current_user,   \* LibrarySystem.current_user (a user_id, or None)
    today,          \* datetime.now().date()
    reserve_seq,    \* history: number of successful reserve_book calls
    out             \* what the last handler reported

vars == <<books, book_order, reservations, users, current_user, today,
          reserve_seq, out>>

\* ------------------------------------------------------- dict and deque
DictSet(d, k, v) == [x \in (DOMAIN d) \cup {k} |-> IF x = k THEN v ELSE d[x]]

DictDel(d, k) == [x \in (DOMAIN d) \ {k} |-> d[x]]

Range(s) == {s[k] : k \in DOMAIN s}

NoEntry == [user |-> None, ticket |-> 0]

DequeAppendLeft(q, e) == <<e>> \o q

DequeAppend(q, e) == Append(q, e)

DequePeekLeft(q) == Head(q)

DequePopLeft(q) == Tail(q)

\* ----------------------------------------------------------------- text
\* A str as the sequence of its characters, for the strings the model uses.
Chars(s) ==
    CASE s = "" ->
             <<>>
      [] s = "Dune" ->
             <<"D", "u", "n", "e">>
      [] s = "Herbert" ->
             <<"H", "e", "r", "b", "e", "r", "t">>
      [] s = "dUN" ->
             <<"d", "U", "N">>
      [] s = "Dane" ->
             <<"D", "a", "n", "e">>
      [] s = "HERB" ->
             <<"H", "E", "R", "B">>
      [] s = "zz" ->
             <<"z", "z">>
      [] s = "To Kill a Mockingbird" ->
             <<"T", "o", " ", "K", "i", "l", "l", " ", "a", " ", "M", "o",
             "c", "k", "i", "n", "g", "b", "i", "r", "d">>
      [] s = "Harper Lee" ->
             <<"H", "a", "r", "p", "e", "r", " ", "L", "e", "e">>
      [] s = "1984" ->
             <<"1", "9", "8", "4">>
      [] s = "George Orwell" ->
             <<"G", "e", "o", "r", "g", "e", " ", "O", "r", "w", "e", "l",
             "l">>
      [] s = "Pride and Prejudice" ->
             <<"P", "r", "i", "d", "e", " ", "a", "n", "d", " ", "P", "r",
             "e", "j", "u", "d", "i", "c", "e">>
      [] s = "Jane Austen" ->
             <<"J", "a", "n", "e", " ", "A", "u", "s", "t", "e", "n">>
      [] s = "The Great Gatsby" ->
             <<"T", "h", "e", " ", "G", "r", "e", "a", "t", " ", "G", "a",
             "t", "s", "b", "y">>
      [] s = "F. Scott Fitzgerald" ->
             <<"F", ".", " ", "S", "c", "o", "t", "t", " ", "F", "i", "t",
             "z", "g", "e", "r", "a", "l", "d">>
      [] s = "Moby-Dick" ->
             <<"M", "o", "b", "y", "-", "D", "i", "c", "k">>
      [] s = "Herman Melville" ->
             <<"H", "e", "r", "m", "a", "n", " ", "M", "e", "l", "v", "i",
             "l", "l", "e">>
      [] s = "War and Peace" ->
             <<"W", "a", "r", " ", "a", "n", "d", " ", "P", "e", "a", "c",
             "e">>
      [] s = "Leo Tolstoy" ->
             <<"L", "e", "o", " ", "T", "o", "l", "s", "t", "o", "y">>
      [] s = "The Catcher in the Rye" ->
             <<"T", "h", "e", " ", "C", "a", "t", "c", "h", "e", "r", " ",
             "i", "n", " ", "t", "h", "e", " ", "R", "y", "e">>
      [] s = "J.D. Salinger" ->
             <<"J", ".", "D", ".", " ", "S", "a", "l", "i", "n", "g", "e",
             "r">>
      [] s = "The Hobbit" ->
             <<"T", "h", "e", " ", "H", "o", "b", "b", "i", "t">>
      [] s = "J.R.R. Tolkien" ->
             <<"J", ".", "R", ".", "R", ".", " ", "T", "o", "l", "k", "i",
             "e", "n">>
      [] s = "Fahrenheit 451" ->
             <<"F", "a", "h", "r", "e", "n", "h", "e", "i", "t", " ", "4",
             "5", "1">>
      [] s = "Ray Bradbury" ->
             <<"R", "a", "y", " ", "B", "r", "a", "d", "b", "u", "r", "y">>
      [] s = "Brave New World" ->
             <<"B", "r", "a", "v", "e", " ", "N", "e", "w", " ", "W", "o",
             "r", "l", "d">>
      [] s = "Aldous Huxley" ->
             <<"A", "l", "d", "o", "u", "s", " ", "H", "u", "x", "l", "e",
             "y">>

\* ord() of the characters the model's strings are made of
CharCode ==
    " " :> 32 @@ "-" :> 45 @@ "." :> 46 @@ "0" :> 48 @@ "1" :> 49 @@ "2" :>
    50 @@ "3" :> 51 @@ "4" :> 52 @@ "5" :> 53 @@ "6" :> 54 @@ "7" :> 55 @@
    "8" :> 56 @@ "9" :> 57 @@ "A" :> 65 @@ "B" :> 66 @@ "C" :> 67 @@ "D" :>
    68 @@ "E" :> 69 @@ "F" :> 70 @@ "G" :> 71 @@ "H" :> 72 @@ "I" :> 73 @@
    "J" :> 74 @@ "K" :> 75 @@ "L" :> 76 @@ "M" :> 77 @@ "N" :> 78 @@ "O" :>
    79 @@ "P" :> 80 @@ "Q" :> 81 @@ "R" :> 82 @@ "S" :> 83 @@ "T" :> 84 @@
    "U" :> 85 @@ "V" :> 86 @@ "W" :> 87 @@ "X" :> 88 @@ "Y" :> 89 @@ "Z" :>
    90 @@ "a" :> 97 @@ "b" :> 98 @@ "c" :> 99 @@ "d" :> 100 @@ "e" :> 101 @@
    "f" :> 102 @@ "g" :> 103 @@ "h" :> 104 @@ "i" :> 105 @@ "j" :> 106 @@
    "k" :> 107 @@ "l" :> 108 @@ "m" :> 109 @@ "n" :> 110 @@ "o" :> 111 @@
    "p" :> 112 @@ "q" :> 113 @@ "r" :> 114 @@ "s" :> 115 @@ "t" :> 116 @@
    "u" :> 117 @@ "v" :> 118 @@ "w" :> 119 @@ "x" :> 120 @@ "y" :> 121 @@
    "z" :> 122

\* str.lower(), character by character
LowerTable ==
    "A" :> "a" @@ "B" :> "b" @@ "C" :> "c" @@ "D" :> "d" @@ "E" :> "e" @@
    "F" :> "f" @@ "G" :> "g" @@ "H" :> "h" @@ "I" :> "i" @@ "J" :> "j" @@
    "K" :> "k" @@ "L" :> "l" @@ "M" :> "m" @@ "N" :> "n" @@ "O" :> "o" @@
    "P" :> "p" @@ "Q" :> "q" @@ "R" :> "r" @@ "S" :> "s" @@ "T" :> "t" @@
    "U" :> "u" @@ "V" :> "v" @@ "W" :> "w" @@ "X" :> "x" @@ "Y" :> "y" @@
    "Z" :> "z"

LowerChar(c) == IF c \in DOMAIN LowerTable THEN LowerTable[c] ELSE c

Lower(cs) == [k \in DOMAIN cs |-> LowerChar(cs[k])]

\* needle in hay, for two strs
Contains(hay, needle) ==
    \E k \in 0..(Len(hay) - Len(needle)) :
        SubSeq(hay, k + 1, k + Len(needle)) = needle

\* a > b, for two strs
RECURSIVE StrGreater(_, _)
StrGreater(a, b) ==
    IF a = <<>> THEN FALSE
    ELSE IF b = <<>> THEN TRUE
    ELSE IF Head(a) # Head(b) THEN CharCode[Head(a)] > CharCode[Head(b)]
    ELSE StrGreater(Tail(a), Tail(b))

Max(S) == CHOOSE x \in S : \A y \in S : y <= x

Min(S) == CHOOSE x \in S : \A y \in S : x <= y

\* difflib.SequenceMatcher.find_longest_match without junk: the longest
\* common block, the one starting earliest in a, then earliest in b
LongestMatch(a, b) ==
    LET At(i, j, k) == SubSeq(a, i, i + k - 1) = SubSeq(b, j, j + k - 1)
        Starts(k) == {ij \in (1..(Len(a) - k + 1)) \X (1..(Len(b) - k + 1)) :
                         At(ij[1], ij[2], k)}
        sizes == {k \in 1..Len(a) : k <= Len(b) /\ Starts(k) # {}}
    IN IF sizes = {} THEN [size |-> 0, i |-> 0, j |-> 0]
       ELSE LET k == Max(sizes)
                i == Min({ij[1] : ij \in Starts(k)})
                j == Min({ij[2] : ij \in {x \in Starts(k) : x[1] = i}})
            IN [size |-> k, i |-> i, j |-> j]

\* the sum of the sizes of SequenceMatcher.get_matching_blocks
RECURSIVE MatchCount(_, _)
MatchCount(a, b) ==
    LET m == LongestMatch(a, b)
    IN IF m.size = 0 THEN 0
       ELSE m.size
            + MatchCount(SubSeq(a, 1, m.i - 1), SubSeq(b, 1, m.j - 1))
            + MatchCount(SubSeq(a, m.i + m.size, Len(a)),
                         SubSeq(b, m.j + m.size, Len(b)))

\* SequenceMatcher.ratio as a fraction: 2.0 * matches / length, 1.0 for two
\* empty strs
Ratio(a, b) ==
    IF Len(a) + Len(b) = 0 THEN [num |-> 1, den |-> 1]
    ELSE [num |-> 2 * MatchCount(a, b), den |-> Len(a) + Len(b)]

\* the (score, x) pairs of get_close_matches in the order of
\* sorted(reverse=True)
ScoredBefore(p, q) ==
    \/ p.score.num * q.score.den > q.score.num * p.score.den
    \/ /\ p.score.num * q.score.den = q.score.num * p.score.den
       /\ StrGreater(Chars(p.x), Chars(q.x))

RECURSIVE SortedLargest(_)
SortedLargest(result) ==
    IF result = <<>> THEN <<>>
    ELSE LET first == Min({k \in DOMAIN result :
                             \A l \in DOMAIN result :
                                 ~ScoredBefore(result[l], result[k])})
         IN <<result[first]>>
            \o SortedLargest(SubSeq(result, 1, first - 1)
                             \o SubSeq(result, first + 1, Len(result)))

\* difflib.get_close_matches(word, possibilities) with n = 3, cutoff = 0.6
get_close_matches(word, possibilities) ==
    LET scored == [k \in DOMAIN possibilities |->
                      [score |-> Ratio(Chars(possibilities[k]), Chars(word)),
                       x |-> possibilities[k]]]
        result == SelectSeq(scored,
                      LAMBDA p : 10 * p.score.num >= 6 * p.score.den)
        largest == SortedLargest(result)
    IN [k \in 1..(IF Len(largest) < 3 THEN Len(largest) ELSE 3) |->
           largest[k].x]

\* ----------------------------------------------------------------- Book
Book(title, author, genre, total_copies) ==
    [title |-> title, author |-> author, genre |-> genre,
     total_copies |-> total_copies, available_copies |-> total_copies]

\* ----------------------------------------------------------------- User
User(name, password) ==
    [name |-> name, password |-> password,
     borrowed_books |-> <<>>, reserved_books |-> {}]

VerifyAnyPassword(user, password) == TRUE

verify_password(user, password) == password = user.password

\* -------------------------------------------------------------- Library
\* Library.add_book: an ISBN already catalogued gains count copies and keeps
\* its own title, author and genre; a new ISBN gets total = available = count.
AddKeepsGiven(isbn, book, count) ==
    IF isbn \in DOMAIN books
    THEN [books |-> [books EXCEPT
                       ![isbn].total_copies = @ + count,
                       ![isbn].available_copies = @ + count],
          book_order |-> book_order]
    ELSE [books |-> DictSet(books, isbn, book),
          book_order |-> Append(book_order, isbn)]

Library_add_book(isbn, book, count) ==
    IF isbn \in DOMAIN books
    THEN [books |-> [books EXCEPT
                       ![isbn].total_copies = @ + count,
                       ![isbn].available_copies = @ + count],
          book_order |-> book_order]
    ELSE [books |-> DictSet(books, isbn,
                       [book EXCEPT !.total_copies = count,
                                    !.available_copies = count]),
          book_order |-> Append(book_order, isbn)]

\* Library.remove_book
RemoveUpToTotal(isbn, count) ==
    IF isbn \notin DOMAIN books
    THEN [exc |-> "BookNotFoundError", books |-> books, book_order |-> book_order]
    ELSE IF count > books[isbn].total_copies
    THEN [exc |-> "BookNotAvailableError", books |-> books,
          book_order |-> book_order]
    ELSE LET total == books[isbn].total_copies - count
             avail == books[isbn].available_copies - count
         IN IF total <= 0
            THEN [exc |-> None, books |-> DictDel(books, isbn),
                  book_order |-> SelectSeq(book_order, LAMBDA x : x # isbn)]
            ELSE [exc |-> None,
                  books |-> [books EXCEPT ![isbn].total_copies = total,
                                          ![isbn].available_copies = avail],
                  book_order |-> book_order]

Library_remove_book(isbn, count) ==
    IF isbn \notin DOMAIN books
    THEN [exc |-> "BookNotFoundError", books |-> books, book_order |-> book_order]
    ELSE IF count > books[isbn].available_copies
    THEN [exc |-> "BookNotAvailableError", books |-> books,
          book_order |-> book_order]
    ELSE LET total == books[isbn].total_copies - count
             avail == books[isbn].available_copies - count
         IN IF total <= 0
            THEN [exc |-> None, books |-> DictDel(books, isbn),
                  book_order |-> SelectSeq(book_order, LAMBDA x : x # isbn)]
            ELSE [exc |-> None,
                  books |-> [books EXCEPT ![isbn].total_copies = total,
                                          ![isbn].available_copies = avail],
                  book_order |-> book_order]

\* datetime.now() + timedelta(days=14), as a day
DueDate(now) == now + LoanDays

\* Library.lend_book
LendTakesTotal(isbn, user_id) ==
    IF isbn \notin DOMAIN books
    THEN [exc |-> "BookNotFoundError", books |-> books, due |-> NoDate]
    ELSE IF books[isbn].available_copies <= 0
    THEN [exc |-> "BookNotAvailableError", books |-> books, due |-> NoDate]
    ELSE [exc |-> None,
          books |-> [books EXCEPT ![isbn].available_copies = @ - 1,
                                  ![isbn].total_copies = @ - 1],
          due |-> DueDate(today)]

Library_lend_book(isbn, user_id) ==
    IF isbn \notin DOMAIN books
    THEN [exc |-> "BookNotFoundError", books |-> books, due |-> NoDate]
    ELSE IF books[isbn].available_copies <= 0
    THEN [exc |-> "BookNotAvailableError", books |-> books, due |-> NoDate]
    ELSE [exc |-> None,
          books |-> [books EXCEPT ![isbn].available_copies = @ - 1],
          due |-> DueDate(today)]

\* the fine of Library.return_book: days late at 1 per day, 0 when none is
\* charged
LateFineFromDueDay(due, return_date) ==
    IF return_date # NoDate /\ due # NoDate /\ return_date >= due
    THEN (return_date - due + 1) * FinePerDay
    ELSE 0

LateFine(due, return_date) ==
    IF return_date # NoDate /\ due # NoDate /\ return_date > due
    THEN (return_date - due) * FinePerDay
    ELSE 0

\* Library.return_book; user_borrowed is user_obj.borrowed_books
Library_return_book(isbn, user_borrowed, return_date) ==
    IF isbn \notin DOMAIN books
    THEN [exc |-> "BookNotFoundError", books |-> books,
          reservations |-> reservations, fine |-> 0, notified |-> NoEntry]
    ELSE LET due == IF isbn \in DOMAIN user_borrowed
                    THEN user_borrowed[isbn] ELSE NoDate
             q == reservations[isbn]
         IN [exc |-> None,
             books |-> [books EXCEPT ![isbn].available_copies = @ + 1],
             reservations |-> IF q # <<>>
                              THEN [reservations EXCEPT ![isbn] = DequePopLeft(q)]
                              ELSE reservations,
             fine |-> LateFine(due, return_date),
             notified |-> IF q # <<>> THEN DequePeekLeft(q) ELSE NoEntry]

\* Library.__iter__ / __next__: the books with a copy on the shelf, in
\* catalogue order
IterAllBooks == book_order

Library_iter == SelectSeq(book_order, LAMBDA i : books[i].available_copies > 0)

\* list(Library._books.values())
Library_books_values == book_order

\* What a search returns: a Book of the catalogue (by its ISBN) or a str.
BookItem(isbn) == [kind |-> "Book", value |-> isbn]

StrItem(text) == [kind |-> "str", value |-> text]

\* Library.search_by_title: the books whose title contains the term, case
\* ignored; when there is none, the titles difflib finds close to the term
Library_search_by_title(title) ==
    LET matches == SelectSeq(book_order,
                       LAMBDA i : Contains(Lower(Chars(books[i].title)),
                                           Lower(Chars(title))))
        titles == [k \in DOMAIN book_order |-> books[book_order[k]].title]
        close == get_close_matches(title, titles)
    IN IF matches # <<>>
       THEN [k \in DOMAIN matches |-> BookItem(matches[k])]
       ELSE [k \in DOMAIN close |-> StrItem(close[k])]

\* Library.search_by_author
Library_search_by_author(author) ==
    LET matches == SelectSeq(book_order,
                       LAMBDA i : Contains(Lower(Chars(books[i].author)),
                                           Lower(Chars(author))))
    IN [k \in DOMAIN matches |-> BookItem(matches[k])]

\* Library.search_by_isbn, as the list "[book] if book else []" both front
\* ends make of it
Library_search_by_isbn(isbn) ==
    IF isbn \in DOMAIN books THEN <<BookItem(isbn)>> ELSE <<>>

\* Library.filter_by_genre: genre -> the available books of that genre
Library_filter_by_genre ==
    LET avail == SelectSeq(book_order, LAMBDA i : books[i].available_copies > 0)
        gs == {books[avail[k]].genre : k \in DOMAIN avail}
    IN [g \in gs |-> SelectSeq(avail, LAMBDA i : books[i].genre = g)]

\* Library.reserve_book
Library_reserve_book(isbn, user_id) ==
    IF isbn \notin DOMAIN books
    THEN [exc |-> "BookNotFoundError", reservations |-> reservations]
    ELSE IF books[isbn].available_copies > 0
    THEN [exc |-> "ReservationError", reservations |-> reservations]
    ELSE [exc |-> None,
          reservations |-> [reservations EXCEPT ![isbn] =
              DequeAppend(@, [user |-> user_id, ticket |-> reserve_seq + 1])]]

\* -------------------------------------------------------- handler results
\* The backend state a handler leaves, with what it reported; count and given
\* are the count and the Book.total_copies handed to add_book / remove_book,
\* due the date lend_book returned.
Report(op, res, isbn) ==
    [op |-> op, res |-> res, isbn |-> isbn, user |-> None, name |-> None,
     password |-> None, fine |-> 0, notified |-> NoEntry, shown |-> <<>>,
     groups |-> <<>>, results |-> <<>>, count |-> 0, given |-> 0, due |-> NoDate]

\* the report of register_user and login, with the arguments they were given
AuthReport(op, res, user_id, name, password) ==
    [Report(op, res, None) EXCEPT !.user = user_id, !.name = name,
                                  !.password = password]

Unchanged(o) ==
    [books |-> books, book_order |-> book_order, reservations |-> reservations,
     users |-> users, current_user |-> current_user,
     reserve_seq |-> reserve_seq, out |-> o]

\* ------------------------------------------------- LibrarySystem (CLI)
\* LibrarySystem.register_user
RegisterOverwrite(user_id, name, password) ==
    [Unchanged(AuthReport("register_user", "registered", user_id, name, password))
        EXCEPT !.users = DictSet(users, user_id, User(name, password))]

LibrarySystem_register_user(user_id, name, password) ==
    IF user_id \in DOMAIN users
    THEN Unchanged(AuthReport("register_user", "exists", user_id, name, password))
    ELSE [Unchanged(AuthReport("register_user", "registered", user_id, name,
                               password))
             EXCEPT !.users = DictSet(users, user_id, User(name, password))]

\* LibrarySystem.login
LibrarySystem_login(user_id, password) ==
    IF user_id \notin DOMAIN users
       \/ ~verify_password(users[user_id], password)
    THEN Unchanged(AuthReport("login", "False", user_id, None, password))
    ELSE [Unchanged(AuthReport("login", "True", user_id, None, password))
             EXCEPT !.current_user = user_id]

\* LibrarySystem.logout
LibrarySystem_logout ==
    [Unchanged(Report("logout", "ok", None)) EXCEPT !.current_user = None]

\* the test of the require_login wrapper: "not self.current_user" is false
NoLoginCheck == TRUE

LoggedIn == current_user # None

\* LibrarySystem.require_login
require_login(op, body) ==
    IF ~LoggedIn THEN Unchanged(Report(op, "login_required", None)) ELSE body

\* LibrarySystem.list_books
LibrarySystem_list_books ==
    require_login("cli_list_books",
        Unchanged([Report("cli_list_books", "ok", None)
                       EXCEPT !.shown = Library_iter]))

\* LibrarySystem.add_book
LibrarySystem_add_book(isbn, title, author, genre, count) ==
    require_login("cli_add_book",
        LET r == Library_add_book(isbn, Book(title, author, genre, count), count)
        IN [Unchanged([Report("cli_add_book", "ok", isbn)
                          EXCEPT !.count = count, !.given = count])
               EXCEPT !.books = r.books, !.book_order = r.book_order])

\* LibrarySystem.lend_book
LibrarySystem_lend_book(isbn) ==
    require_login("cli_lend_book",
        IF current_user = None
        THEN Unchanged(Report("cli_lend_book", "AttributeError", isbn))
        ELSE IF Cardinality(DOMAIN users[current_user].borrowed_books)
                    >= default_borrow_limit
        THEN Unchanged(Report("cli_lend_book", "UserLimitExceededError", isbn))
        ELSE LET r == Library_lend_book(isbn, current_user)
             IN IF r.exc # None
                THEN Unchanged(Report("cli_lend_book", r.exc, isbn))
                ELSE [Unchanged([Report("cli_lend_book", "ok", isbn)
                                    EXCEPT !.due = r.due])
                         EXCEPT !.books = r.books,
                                !.users[current_user].borrowed_books =
                                    DictSet(@, isbn, r.due)])

\* LibrarySystem.return_book
ReturnWithoutLoanCheck(isbn) ==
    require_login("cli_return_book",
        LET r == Library_return_book(
                     isbn, users[current_user].borrowed_books, today)
        IN IF r.exc # None
           THEN Unchanged(Report("cli_return_book", r.exc, isbn))
           ELSE [Unchanged([Report("cli_return_book", "ok", isbn)
                               EXCEPT !.fine = r.fine, !.notified = r.notified])
                    EXCEPT !.books = r.books,
                           !.reservations = r.reservations,
                           !.users[current_user].borrowed_books =
                               [j \in DOMAIN @ \ {isbn} |-> @[j]]])

LibrarySystem_return_book(isbn) ==
    require_login("cli_return_book",
        IF current_user = None
        THEN Unchanged(Report("cli_return_book", "AttributeError", isbn))
        ELSE IF isbn \notin DOMAIN users[current_user].borrowed_books
        THEN Unchanged(Report("cli_return_book", "not_borrowed", isbn))
        ELSE LET r == Library_return_book(
                          isbn, users[current_user].borrowed_books, today)
             IN IF r.exc # None
                THEN Unchanged(Report("cli_return_book", r.exc, isbn))
                ELSE [Unchanged([Report("cli_return_book", "ok", isbn)
                                    EXCEPT !.fine = r.fine,
                                           !.notified = r.notified])
                         EXCEPT !.books = r.books,
                                !.reservations = r.reservations,
                                !.users[current_user].borrowed_books =
                                    DictDel(@, isbn)])

\* LibrarySystem.search_books; by and term are the answers typed, stripped
\* (and by lowercased)
LibrarySystem_search_books(by, term) ==
    require_login("cli_search_books",
        IF by = "title"
        THEN Unchanged([Report("cli_search_books", "ok", None)
                           EXCEPT !.results = Library_search_by_title(term)])
        ELSE IF by = "author"
        THEN Unchanged([Report("cli_search_books", "ok", None)
                           EXCEPT !.results = Library_search_by_author(term)])
        ELSE IF by = "isbn"
        THEN Unchanged([Report("cli_search_books", "ok", None)
                           EXCEPT !.results = Library_search_by_isbn(term)])
        ELSE Unchanged(Report("cli_search_books", "invalid_search_type", None)))

\* LibrarySystem.reserve_book
LibrarySystem_reserve_book(isbn) ==
    require_login("cli_reserve_book",
        IF current_user = None
        THEN Unchanged(Report("cli_reserve_book", "AttributeError", isbn))
        ELSE LET r == Library_reserve_book(isbn, current_user)
             IN IF r.exc # None
                THEN Unchanged(Report("cli_reserve_book", r.exc, isbn))
                ELSE [Unchanged(Report("cli_reserve_book", "ok", isbn))
                         EXCEPT !.reservations = r.reservations,
                                !.reserve_seq = @ + 1,
                                !.users[current_user].reserved_books =
                                    @ \cup {isbn}])

\* LibrarySystem.filter_by_genre
LibrarySystem_filter_by_genre ==
    require_login("cli_filter_by_genre",
        Unchanged([Report("cli_filter_by_genre", "ok", None)
                       EXCEPT !.groups = Library_filter_by_genre]))

\* ------------------------------------------------- library_gui (GUI)
\* LoginRegisterWidget._handle_login, with LibraryApp.show_main
LoginRegisterWidget_handle_login(user_id, password) ==
    LET r == LibrarySystem_login(user_id, password)
    IN IF r.out.res = "True"
       THEN [r EXCEPT !.out.op = "gui_login",
                      !.out.shown = Library_books_values]
       ELSE [r EXCEPT !.out.op = "gui_login"]

\* LoginRegisterWidget._handle_register
LoginRegisterWidget_handle_register(user_id, name, password) ==
    [LibrarySystem_register_user(user_id, name, password)
        EXCEPT !.out.op = "gui_register"]

\* LibraryApp.logout
LibraryApp_logout == [LibrarySystem_logout EXCEPT !.out.op = "gui_logout"]

\* MainWidget.list_books
MainWidget_list_books ==
    Unchanged([Report("gui_list_books", "ok", None)
                   EXCEPT !.shown = Library_books_values])

\* MainWidget._add_book
MainWidget_add_book(isbn, title, author, genre, count) ==
    LET r == Library_add_book(isbn, Book(title, author, genre, count), count)
    IN [Unchanged([Report("gui_add_book", "ok", isbn)
                      EXCEPT !.shown = r.book_order, !.count = count,
                             !.given = count])
           EXCEPT !.books = r.books, !.book_order = r.book_order]

\* MainWidget._lend_book
MainWidget_lend_book(isbn) ==
    LET r == Library_lend_book(isbn, current_user)
    IN IF r.exc # None
       THEN Unchanged(Report("gui_lend_book", r.exc, isbn))
       ELSE [Unchanged([Report("gui_lend_book", "ok", isbn)
                           EXCEPT !.shown = Library_books_values,
                                  !.due = r.due])
                EXCEPT !.books = r.books,
                       !.users[current_user].borrowed_books =
                           DictSet(@, isbn, r.due)]

\* MainWidget._return_book: Library.return_book runs first, and the del of the
\* loan record raises KeyError after it when the user holds no such loan
MainWidget_return_book(isbn) ==
    LET r == Library_return_book(
                 isbn, users[current_user].borrowed_books, today)
    IN IF r.exc # None
       THEN Unchanged(Report("gui_return_book", r.exc, isbn))
       ELSE IF isbn \notin DOMAIN users[current_user].borrowed_books
       THEN [Unchanged([Report("gui_return_book", "KeyError", isbn)
                           EXCEPT !.fine = r.fine, !.notified = r.notified])
                EXCEPT !.books = r.books, !.reservations = r.reservations]
       ELSE [Unchanged([Report("gui_return_book", "ok", isbn)
                           EXCEPT !.fine = r.fine, !.notified = r.notified,
                                  !.shown = Library_books_values])
                EXCEPT !.books = r.books, !.reservations = r.reservations,
                       !.users[current_user].borrowed_books = DictDel(@, isbn)]

\* MainWidget._populate_table: a row per result, filled from the result's
\* title, author, isbn, genre and copy counts; a str has none of these, and
\* reading .title of the first one raises AttributeError with the rows before
\* it filled
RECURSIVE RowsFilled(_)
RowsFilled(book_list) ==
    IF book_list = <<>> \/ Head(book_list).kind # "Book" THEN <<>>
    ELSE <<Head(book_list).value>> \o RowsFilled(Tail(book_list))

MainWidget_populate_table(op, book_list) ==
    Unchanged([Report(op, IF \E k \in DOMAIN book_list :
                                book_list[k].kind # "Book"
                          THEN "AttributeError" ELSE "ok", None)
                  EXCEPT !.results = book_list,
                         !.shown = RowsFilled(book_list)])

\* MainWidget._search; by is the entry of the combo box chosen
MainWidget_search(by, term) ==
    MainWidget_populate_table("gui_search",
        IF by = "title" THEN Library_search_by_title(term)
        ELSE IF by = "author" THEN Library_search_by_author(term)
        ELSE Library_search_by_isbn(term))

\* MainWidget._reserve
MainWidget_reserve(isbn) ==
    LET r == Library_reserve_book(isbn, current_user)
    IN IF r.exc # None
       THEN Unchanged(Report("gui_reserve", r.exc, isbn))
       ELSE [Unchanged(Report("gui_reserve", "ok", isbn))
                EXCEPT !.reservations = r.reservations,
                       !.reserve_seq = @ + 1,
                       !.users[current_user].reserved_books = @ \cup {isbn}]

\* the keys of the dict filter_by_genre builds, in insertion order
RECURSIVE FirstSeen(_)
FirstSeen(s) ==
    IF s = <<>> THEN <<>>
    ELSE LET r == FirstSeen(SubSeq(s, 1, Len(s) - 1))
         IN IF s[Len(s)] \in Range(r) THEN r ELSE Append(r, s[Len(s)])

\* the rows MainWidget.filter_genre puts in the table: group after group
RECURSIVE Flatten(_, _)
Flatten(groups, keys) ==
    IF keys = <<>> THEN <<>>
    ELSE groups[Head(keys)] \o Flatten(groups, Tail(keys))

\* MainWidget.filter_genre
MainWidget_filter_genre ==
    LET groups == Library_filter_by_genre
    IN Unchanged([Report("gui_filter_genre", "ok", None)
                     EXCEPT !.groups = groups,
                            !.shown = Flatten(groups,
                                FirstSeen([k \in DOMAIN Library_iter |->
                                    books[Library_iter[k]].genre]))])

\* Library.remove_book called directly (no handler of either front end
\* calls it)
Library_remove_book_call(isbn, count) ==
    LET r == Library_remove_book(isbn, count)
    IN IF r.exc # None
       THEN Unchanged([Report("remove_book", r.exc, isbn)
                          EXCEPT !.count = count])
       ELSE [Unchanged([Report("remove_book", "ok", isbn)
                           EXCEPT !.count = count])
                EXCEPT !.books = r.books, !.book_order = r.book_order]

\* Library.add_book called directly with a Book constructed with
\* total_copies copies (DigitalLibrary.add_ebook and seed_library call it so)
Library_add_book_call(isbn, title, author, genre, total_copies, count) ==
    LET r == Library_add_book(isbn, Book(title, author, genre, total_copies),
                              count)
    IN [Unchanged([Report("add_book", "ok", isbn)
                      EXCEPT !.count = count, !.given = total_copies])
           EXCEPT !.books = r.books, !.book_order = r.book_order]

\* LibrarySystem.seed_library: the first SeedCount of its ten titles, one
\* copy each, added with Library.add_book to the empty catalogue
SeedData ==
    << [title |-> "To Kill a Mockingbird", author |-> "Harper Lee",
        isbn |-> "9780061120084", genre |-> "Classic Fiction"],
       [title |-> "1984", author |-> "George Orwell",
        isbn |-> "9780451524935", genre |-> "Dystopian Fiction"],
       [title |-> "Pride and Prejudice", author |-> "Jane Austen",
        isbn |-> "9780141199078", genre |-> "Classic Romance"],
       [title |-> "The Great Gatsby", author |-> "F. Scott Fitzgerald",
        isbn |-> "9780743273565", genre |-> "Classic Fiction"],
       [title |-> "Moby-Dick", author |-> "Herman Melville",
        isbn |-> "9781503280786", genre |-> "Adventure Fiction"],
       [title |-> "War and Peace", author |-> "Leo Tolstoy",
        isbn |-> "9780199232765", genre |-> "Historical Fiction"],
       [title |-> "The Catcher in the Rye", author |-> "J.D. Salinger",
        isbn |-> "9780316769488", genre |-> "Literary Fiction"],
       [title |-> "The Hobbit", author |-> "J.R.R. Tolkien",
        isbn |-> "9780547928227", genre |-> "Fantasy"],
       [title |-> "Fahrenheit 451", author |-> "Ray Bradbury",
        isbn |-> "9781451673319", genre |-> "Dystopian Fiction"],
       [title |-> "Brave New World", author |-> "Aldous Huxley",
        isbn |-> "9780060850524", genre |-> "Dystopian Fiction"] >>

SeedISBNs == {SeedData[k].isbn : k \in 1..Len(SeedData)}

RECURSIVE SeedFrom(_, _)
SeedFrom(k, st) ==
    IF k > SeedCount \/ k > Len(SeedData) THEN st
    ELSE LET b == SeedData[k]
         IN SeedFrom(k + 1,
                [books |-> DictSet(st.books, b.isbn,
                               Book(b.title, b.author, b.genre, 1)),
                 book_order |-> Append(st.book_order, b.isbn)])

LibrarySystem_seed_library ==
    SeedFrom(1, [books |-> <<>>, book_order |-> <<>>])

\* LibrarySystem.exit: sys.exit(0) ends the run
LibrarySystem_exit == Unchanged(Report("exit", "ok", None))

\* LibrarySystem.manage_state: "if not self.current_user" picks the menu
AuthMenuAlways == TRUE

AuthMenu == current_user = None

\* the auth menu of manage_state; choice is the answer typed, stripped
manage_state_auth(choice, uid, name, pw) ==
    IF choice = "1" THEN LibrarySystem_register_user(uid, name, pw)
    ELSE IF choice = "2" THEN LibrarySystem_login(uid, pw)
    ELSE IF choice = "3" THEN LibrarySystem_exit
    ELSE Unchanged(Report("invalid_option", "auth_menu", None))

\* the main menu of manage_state; isbn, count, by and term are what the
\* handler chosen reads with input()
manage_state_main(action, isbn, title, author, genre, count, by, term) ==
    IF action = "1" THEN LibrarySystem_list_books
    ELSE IF action = "2"
    THEN LibrarySystem_add_book(isbn, title, author, genre, count)
    ELSE IF action = "3" THEN LibrarySystem_lend_book(isbn)
    ELSE IF action = "4" THEN LibrarySystem_return_book(isbn)
    ELSE IF action = "5" THEN LibrarySystem_search_books(by, term)
    ELSE IF action = "6" THEN LibrarySystem_reserve_book(isbn)
    ELSE IF action = "7" THEN LibrarySystem_filter_by_genre
    ELSE IF action = "8" THEN LibrarySystem_logout
    ELSE IF action = "9" THEN LibrarySystem_exit
    ELSE Unchanged(Report("invalid_option", "main_menu", None))

\* ---------------------------------------------------------------- steps
AllISBNs == ISBNs \cup SeedISBNs

Bounded(o) ==
    /\ \A i \in DOMAIN o.books :
          /\ o.books[i].total_copies \in -MaxDebt..MaxCopies
          /\ o.books[i].available_copies \in -MaxDebt..MaxCopies
    /\ \A i \in DOMAIN o.reservations : Len(o.reservations[i]) <= MaxQueue
    /\ o.reserve_seq <= MaxReserves

Step(o) ==
    /\ Bounded(o)
    /\ books' = o.books
    /\ book_order' = o.book_order
    /\ reservations' = o.reservations
    /\ users' = o.users
    /\ current_user' = o.current_user
    /\ reserve_seq' = o.reserve_seq
    /\ out' = o.out
    /\ UNCHANGED today

\* LibrarySystem.__init__
Init ==
    /\ books = <<>>
    /\ book_order = <<>>
    /\ reservations = [i \in AllISBNs |-> <<>>]
    /\ users = <<>>
    /\ current_user = None
    /\ today = 0
    /\ reserve_seq = 0
    /\ out = Report("init", "ok", None)

\* LibraryApp.__init__ and backend's entry point: LibrarySystem() followed
\* by seed_library()
InitSeeded ==
    /\ books = LibrarySystem_seed_library.books
    /\ book_order = LibrarySystem_seed_library.book_order
    /\ reservations = [i \in AllISBNs |-> <<>>]
    /\ users = <<>>
    /\ current_user = None
    /\ today = 0
    /\ reserve_seq = 0
    /\ out = Report("init", "ok", None)

\* datetime.now() moves on between two handlers
Tick ==
    \E d \in ClockSteps :
        /\ today + d <= LoanDays + MaxLate
        /\ today' = today + d
        /\ out' = Report("tick", "ok", None)
        /\ UNCHANGED <<books, book_order, reservations, users, current_user,
                       reserve_seq>>

Register(U, N, P) ==
    \E u \in U, n \in N, p \in P : Step(LibrarySystem_register_user(u, n, p))

Login(U, P) == \E u \in U, p \in P : Step(LibrarySystem_login(u, p))

Logout == Step(LibrarySystem_logout)

CliList == Step(LibrarySystem_list_books)

CliAdd(I, G, C) ==
    \E i \in I, t \in Titles, a \in Authors, g \in G, c \in C :
        Step(LibrarySystem_add_book(i, t, a, g, c))

CliLend(I) == \E i \in I : Step(LibrarySystem_lend_book(i))

CliReturn(I) == \E i \in I : Step(LibrarySystem_return_book(i))

CliReserve(I) == \E i \in I : Step(LibrarySystem_reserve_book(i))

CliFilter == Step(LibrarySystem_filter_by_genre)

\* a search by title or author for a term, by ISBN for an ISBN, or by
\* something else
SearchInputs(T, I) == ({"title", "author", "genre"} \X T) \cup ({"isbn"} \X I)

CliSearch(T, I) ==
    \E x \in SearchInputs(T, I) : Step(LibrarySystem_search_books(x[1], x[2]))

\* The GUI shows the login page exactly while nobody is logged in, and the
\* main page (whose dialogs are modal) exactly while somebody is.
GuiRegister(U, N, P) ==
    /\ current_user = None
    /\ \E u \in U, n \in N, p \in P :
          Step(LoginRegisterWidget_handle_register(u, n, p))

GuiLogin(U, P) ==
    /\ current_user = None
    /\ \E u \in U, p \in P : Step(LoginRegisterWidget_handle_login(u, p))

GuiLogout == current_user # None /\ Step(LibraryApp_logout)

GuiList == current_user # None /\ Step(MainWidget_list_books)

GuiAdd(I, G, C) ==
    /\ current_user # None
    /\ \E i \in I, t \in Titles, a \in Authors, g \in G, c \in C :
          Step(MainWidget_add_book(i, t, a, g, c))

GuiLend(I) == current_user # None /\ \E i \in I : Step(MainWidget_lend_book(i))

GuiReturn(I) ==
    current_user # None /\ \E i \in I : Step(MainWidget_return_book(i))

GuiReserve(I) == current_user # None /\ \E i \in I : Step(MainWidget_reserve(i))

GuiFilter == current_user # None /\ Step(MainWidget_filter_genre)

GuiSearch(T, I) ==
    /\ current_user # None
    /\ \E x \in ({"title", "author"} \X T) \cup ({"isbn"} \X I) :
          Step(MainWidget_search(x[1], x[2]))

\* one turn of the while loop of manage_state with the auth menu
ManageAuth(U, P) ==
    /\ out.op # "exit"
    /\ AuthMenu
    /\ \E choice \in AuthChoices, u \in U, p \in P :
          Step(manage_state_auth(choice, u, "Ann", p))

\* one turn of the while loop of manage_state with the main menu
ManageMain(I, S) ==
    /\ out.op # "exit"
    /\ ~AuthMenu
    /\ \E action \in MainChoices, i \in I, x \in S :
          Step(manage_state_main(action, i, "Dune", "Herbert", "Fiction", 1,
                                 x[1], x[2]))

RemoveBook(I, C) == \E i \in I, c \in C : Step(Library_remove_book_call(i, c))

AddBook(I, T, G, C) ==
    \E i \in I, t \in T, a \in Authors, g \in G, n \in GuiCounts, c \in C :
        Step(Library_add_book_call(i, t, a, g, n, c))

\* ------------------------------------------------------- specifications
\* Lending, returning and reserving one title through both front ends, by
\* two users; KnownISBNs can be catalogued, ISBNs \ KnownISBNs never are.
KnownISBNs == {"i1"}

Next ==
    \/ Register(UserIds, {"Ann"}, {"pw1"})
    \/ Login(UserIds, {"pw1"})
    \/ Logout
    \/ GuiLogout
    \/ CliAdd(KnownISBNs, {"Fiction"}, CliCounts)
    \/ GuiAdd(KnownISBNs, {"Fiction"}, GuiCounts)
    \/ CliLend(ISBNs)
    \/ GuiLend(ISBNs)
    \/ CliReturn(ISBNs)
    \/ GuiReturn(ISBNs)
    \/ CliReserve(ISBNs)
    \/ GuiReserve(ISBNs)
    \/ RemoveBook(ISBNs, {1})

Spec == Init /\ [][Next]_vars

\* The CLI's "Number of copies" is int(input()): any integer, negative ones
\* included. One user, one title.
NextSigned ==
    \/ Register({"u1"}, {"Ann"}, {"pw1"})
    \/ Login({"u1"}, {"pw1"})
    \/ CliAdd(KnownISBNs, {"Fiction"}, SignedCounts)
    \/ CliLend(ISBNs)
    \/ CliReturn(ISBNs)
    \/ CliReserve(ISBNs)
    \/ GuiReserve(ISBNs)

SpecSigned == Init /\ [][NextSigned]_vars

\* The seeded shelf, one user, lending through both front ends.
NextSeeded ==
    \/ Register({"u1"}, {"Ann"}, {"pw1"})
    \/ Login({"u1"}, {"pw1"})
    \/ CliLend(SeedISBNs)
    \/ GuiLend(SeedISBNs)
    \/ CliReturn(SeedISBNs)

SpecSeeded == InitSeeded /\ [][NextSeeded]_vars

\* One user lending and returning one title while the clock moves on.
NextDue ==
    \/ Register({"u1"}, {"Ann"}, {"pw1"})
    \/ Login({"u1"}, {"pw1"})
    \/ CliAdd(KnownISBNs, {"Fiction"}, CliCounts)
    \/ CliLend(KnownISBNs)
    \/ GuiLend(KnownISBNs)
    \/ CliReturn(KnownISBNs)
    \/ GuiReturn(KnownISBNs)
    \/ Tick

SpecDue == Init /\ [][NextDue]_vars

\* Registration and login with every name and password through both front
\* ends, with a title to lend.
NextAuth ==
    \/ Register(UserIds, Names, Passwords)
    \/ GuiRegister(UserIds, Names, Passwords)
    \/ Login(UserIds, Passwords)
    \/ GuiLogin(UserIds, Passwords)
    \/ Logout
    \/ GuiLogout
    \/ CliAdd(KnownISBNs, {"Fiction"}, GuiCounts)
    \/ CliLend(KnownISBNs)

SpecAuth == Init /\ [][NextAuth]_vars

\* The login-guarded handlers of LibrarySystem, called whether or not
\* somebody is logged in.
NextGuard ==
    \/ Register(UserIds, {"Ann"}, {"pw1"})
    \/ Login(UserIds, {"pw1"})
    \/ Logout
    \/ CliList
    \/ CliAdd(KnownISBNs, Genres, GuiCounts)
    \/ CliLend(ISBNs)
    \/ CliReturn(ISBNs)
    \/ CliReserve(ISBNs)
    \/ CliFilter
    \/ CliSearch(SearchTerms, ISBNs)

SpecGuard == Init /\ [][NextGuard]_vars

\* One user, two titles of either genre: the listings of both front ends.
NextCatalogue ==
    \/ Register({"u1"}, {"Ann"}, {"pw1"})
    \/ Login({"u1"}, {"pw1"})
    \/ CliAdd(ISBNs, Genres, GuiCounts)
    \/ CliLend(ISBNs)
    \/ CliReturn(ISBNs)
    \/ RemoveBook(ISBNs, {1})
    \/ CliList
    \/ CliFilter
    \/ GuiList
    \/ GuiFilter

SpecCatalogue == Init /\ [][NextCatalogue]_vars

\* Two titles whose copy counts may be negative, lent through both front
\* ends by one user.
NextLend ==
    \/ Register({"u1"}, {"Ann"}, {"pw1"})
    \/ Login({"u1"}, {"pw1"})
    \/ Logout
    \/ CliAdd(ISBNs, {"Fiction"}, SignedCounts)
    \/ CliLend(ISBNs)
    \/ GuiLend(ISBNs)
    \/ CliReturn(ISBNs)

SpecLend == Init /\ [][NextLend]_vars

\* backend's entry point: the seeded shelf and the menu loop.
NextMenu ==
    \/ ManageAuth({"u1"}, Passwords)
    \/ ManageMain(MenuISBNs, MenuSearches)

SpecMenu == InitSeeded /\ [][NextMenu]_vars

\* Library.add_book and Library.remove_book called with one or two copies of
\* two titles, through the front ends and directly, while one user lends
\* and reserves.
NextShelf ==
    \/ Register({"u1"}, {"Ann"}, {"pw1"})
    \/ Login({"u1"}, {"pw1"})
    \/ AddBook(ISBNs, {"Dane"}, {"Fiction"}, CliCounts)
    \/ CliAdd(KnownISBNs, {"Fantasy"}, CliCounts)
    \/ GuiAdd(KnownISBNs, {"Fantasy"}, GuiCounts)
    \/ RemoveBook(ISBNs, CliCounts)
    \/ CliLend(ISBNs)
    \/ CliReserve(KnownISBNs)

SpecShelf == Init /\ [][NextShelf]_vars

\* Searching two titles through both front ends.
NextSearch ==
    \/ Register({"u1"}, {"Ann"}, {"pw1"})
    \/ Login({"u1"}, {"pw1"})
    \/ CliAdd(ISBNs, {"Fiction"}, GuiCounts)
    \/ CliLend(ISBNs)
    \/ CliSearch(SearchTerms, ISBNs)
    \/ GuiSearch(SearchTerms, ISBNs)

SpecSearch == Init /\ [][NextSearch]_vars

\* ----------------------------------------------------------------- claims
ReturnOps == {"cli_return_book", "gui_return_book"}
LendOps == {"cli_lend_book", "gui_lend_book"}
ReserveOps == {"cli_reserve_book", "gui_reserve"}

\* C1: every catalogued book has available_copies <= total_copies, in every
\* state reachable through the CLI and the GUI handlers.
AvailableAtMostTotal ==
    \A i \in DOMAIN books :
        books[i].available_copies <= books[i].total_copies

\* C2: a reservation is recorded exactly when the ISBN is catalogued and its
\* available_copies is exactly 0; an unknown ISBN raises BookNotFoundError, an
\* available book raises ReservationError, and an error changes no queue and
\* no user's reserved_books.
ReserveOnlyAtZero ==
    [][(out'.op \in ReserveOps /\ out'.res # "login_required") =>
        LET i == out'.isbn
        IN /\ (out'.res = "ok") <=>
                  (i \in DOMAIN books /\ books[i].available_copies = 0)
           /\ out'.res = "ok" =>
                  /\ Len(reservations'[i]) = Len(reservations[i]) + 1
                  /\ \E k \in DOMAIN reservations'[i] :
                        reservations'[i][k].user = current_user
           /\ i \notin DOMAIN books => out'.res = "BookNotFoundError"
           /\ (i \in DOMAIN books /\ books[i].available_copies > 0) =>
                  out'.res = "ReservationError"
           /\ out'.res # "ok" => UNCHANGED <<reservations, users>>]_vars

\* C3: each queue is FIFO: its entries stand in the order their reserve_book
\* calls succeeded, an entry leaves only by a return_book that notifies it,
\* and never while an entry reserved earlier is still waiting.
FifoQueues ==
    [][\A i \in AllISBNs :
        LET q == reservations[i]
            q2 == reservations'[i]
        IN /\ \A a, b \in DOMAIN q2 : a < b => q2[a].ticket < q2[b].ticket
           /\ \A e \in Range(q) \ Range(q2) :
                 /\ out'.op \in ReturnOps /\ out'.isbn = i
                 /\ out'.notified = e
                 /\ \A e1 \in Range(q) : e1.ticket >= e.ticket
                 /\ Range(q2) = Range(q) \ {e}]_vars

\* C3 witness: a return has notified the user who reserved first while a
\* user who reserved later is still waiting.
FifoWitness ==
    /\ out.op \in ReturnOps
    /\ out.notified # NoEntry
    /\ reservations[out.isbn] # <<>>
    /\ reservations[out.isbn][1].user # out.notified.user
    /\ reservations[out.isbn][1].ticket > out.notified.ticket

\* What a handler leaves of the backend, and whether it accepted.
Backend(o) ==
    [books |-> o.books, reservations |-> o.reservations, users |-> o.users,
     current_user |-> o.current_user, accepted |-> o.out.res = "ok"]

\* C4: from the same state the CLI handler and the GUI handler of the same
\* operation accept or reject alike and leave the same backend state.
FrontEndsAgree ==
    current_user # None =>
        \A i \in ISBNs :
            /\ Backend(LibrarySystem_lend_book(i)) = Backend(MainWidget_lend_book(i))
            /\ Backend(LibrarySystem_return_book(i))
                   = Backend(MainWidget_return_book(i))
            /\ Backend(LibrarySystem_reserve_book(i)) = Backend(MainWidget_reserve(i))
            /\ Backend(LibrarySystem_add_book(i, "Dune", "Herbert", "Fiction", 1))
                   = Backend(MainWidget_add_book(i, "Dune", "Herbert", "Fiction", 1))
            /\ Backend(LibrarySystem_logout) = Backend(LibraryApp_logout)

\* C5: in every reachable state each user's borrowed_books holds at most
\* default_borrow_limit entries (which is what rejecting every lend of a user
\* who already holds that many, without changing anything, maintains).
BorrowLimitKept ==
    \A u \in DOMAIN users :
        Cardinality(DOMAIN users[u].borrowed_books) <= default_borrow_limit

\* C6: a successful lend records a due day exactly 14 days after the lending
\* day; a return later than the due day recorded for that user and ISBN is
\* fined exactly 1 per day late, and a return on or before it is not fined.
DueAndFine ==
    [][/\ (out'.op \in LendOps /\ out'.res = "ok") =>
              users'[current_user].borrowed_books[out'.isbn] = today + 14
       /\ (out'.op \in ReturnOps /\ out'.res = "ok") =>
              LET due == users[current_user].borrowed_books[out'.isbn]
              IN /\ today > due => out'.fine = (today - due) * 1
                 /\ today <= due => out'.fine = 0]_vars

\* C6 witness: a book lent on one day has come back two days late and a
\* fine of 2 was charged.
FineWitness ==
    /\ out.op \in ReturnOps
    /\ out.res = "ok"
    /\ out.fine = 2

GuardedOps ==
    {"cli_list_books", "cli_add_book", "cli_lend_book", "cli_return_book",
     "cli_search_books", "cli_reserve_book", "cli_filter_by_genre"}
LoginOps == {"login", "gui_login"}
RegisterOps == {"register_user", "gui_register"}

\* C7: at most one user is the current user, and it is a registered one; a
\* login-guarded handler of LibrarySystem called while nobody is logged in
\* returns without changing the catalogue, a queue or a user record.
LoginGuard ==
    [][/\ current_user' \in DOMAIN users' \cup {None}
       /\ (current_user = None /\ out'.op \in GuardedOps) =>
              /\ out'.res = "login_required"
              /\ UNCHANGED <<books, book_order, reservations, users,
                             current_user>>]_vars

\* C7 witness: a guarded handler was called with nobody logged in while the
\* catalogue held a book on loan.
LoginGuardWitness ==
    /\ out.op \in GuardedOps
    /\ out.res = "login_required"
    /\ \E i \in DOMAIN books : books[i].available_copies < books[i].total_copies
    /\ \E u \in DOMAIN users : users[u].borrowed_books # <<>>

\* C8: login answers True, and makes the user the current user, exactly when
\* the user id is registered and the password is the one given when it was
\* registered (a password never changes afterwards); otherwise it answers
\* False and changes neither current_user nor the users nor the catalogue.
LoginIff ==
    [][/\ \A u \in DOMAIN users :
             u \in DOMAIN users' /\ users'[u].password = users[u].password
       /\ \A u \in (DOMAIN users') \ DOMAIN users :
             /\ out'.op \in RegisterOps
             /\ out'.user = u
             /\ users'[u].password = out'.password
       /\ out'.op \in LoginOps =>
             LET u == out'.user
                 good == u \in DOMAIN users /\ users[u].password = out'.password
             IN /\ good => out'.res = "True" /\ current_user' = u
                /\ ~good => /\ out'.res = "False"
                            /\ UNCHANGED <<current_user, users, books,
                                           book_order, reservations>>]_vars

\* C8 witness: a registered user's login was refused for a wrong password
\* while another user stayed logged in.
LoginWitness ==
    /\ out.op \in LoginOps
    /\ out.res = "False"
    /\ out.user \in DOMAIN users
    /\ current_user \notin {None, out.user}

\* C9: registering an id that is taken changes no user record; registering a
\* new id adds exactly that user, with the name and password given and no
\* loans or reservations; neither changes current_user.
RegisterNeverOverwrites ==
    [][out'.op \in RegisterOps =>
        LET u == out'.user
        IN /\ u \in DOMAIN users => users' = users /\ out'.res = "exists"
           /\ u \notin DOMAIN users =>
                 /\ out'.res = "registered"
                 /\ DOMAIN users' = DOMAIN users \cup {u}
                 /\ \A v \in DOMAIN users : users'[v] = users[v]
                 /\ users'[u] = [name |-> out'.name, password |-> out'.password,
                                 borrowed_books |-> <<>>, reserved_books |-> {}]
           /\ current_user' = current_user]_vars

\* C9 witness: an id was registered again under another name and password,
\* and the first registration, loans included, is still what is recorded.
RegisterWitness ==
    /\ out.op \in RegisterOps
    /\ out.res = "exists"
    /\ users[out.user].password # out.password
    /\ users[out.user].name # out.name
    /\ users[out.user].borrowed_books # <<>>

AvailableBooks == {i \in DOMAIN books : books[i].available_copies > 0}

\* the places of the groups of a filter_by_genre result where book i stands
PlacesOf(groups, i) ==
    {p \in UNION {{<<g, k>> : k \in DOMAIN groups[g]} : g \in DOMAIN groups} :
        groups[p[1]][p[2]] = i}

\* the part of C10 about the Library: iterating it lists each catalogued
\* book with available_copies > 0 once and no other book, and
\* filter_by_genre puts each such book in exactly one group, that of its
\* genre, and no other book in any group.
LibraryListsAvailable ==
    /\ (out.op = "cli_list_books" /\ out.res = "ok") =>
          /\ Range(out.shown) = AvailableBooks
          /\ Len(out.shown) = Cardinality(AvailableBooks)
    /\ (out.op \in {"cli_filter_by_genre", "gui_filter_genre"}
            /\ out.res = "ok") =>
          /\ \A i \in DOMAIN books :
                Cardinality(PlacesOf(out.groups, i))
                    = IF i \in AvailableBooks THEN 1 ELSE 0
          /\ \A g \in DOMAIN out.groups :
                /\ out.groups[g] # <<>>
                /\ \A k \in DOMAIN out.groups[g] :
                      /\ out.groups[g][k] \in DOMAIN books
                      /\ books[out.groups[g][k]].genre = g

\* C10 as amended: the Library part, and the GUI's "List Books" shows every
\* catalogued book, whatever its available_copies.
ListingsAmended ==
    /\ LibraryListsAvailable
    /\ out.op = "gui_list_books" =>
          /\ Range(out.shown) = DOMAIN books
          /\ Len(out.shown) = Cardinality(DOMAIN books)

\* C10: the Library part, and the GUI's "List Books" shows the same set of
\* books as the CLI listing.
ListingsAgree ==
    /\ LibraryListsAvailable
    /\ out.op = "gui_list_books" => Range(out.shown) = Range(Library_iter)

\* C10 witness: the GUI has listed a catalogue in which one title is on the
\* shelf and another is lent out.
ListingWitness ==
    /\ out.op = "gui_list_books"
    /\ \E i, j \in DOMAIN books :
          books[i].available_copies > 0 /\ books[j].available_copies = 0


\* the handler reaches its call of Library.lend_book
LendCalled ==
    \/ out'.op = "gui_lend_book"
    \/ /\ out'.op = "cli_lend_book"
       /\ current_user # None
       /\ Cardinality(DOMAIN users[current_user].borrowed_books)
              < default_borrow_limit

\* C11: Library.lend_book raises BookNotFoundError for an ISBN that is not
\* catalogued and BookNotAvailableError when available_copies <= 0, changing
\* nothing in either case; otherwise it takes exactly 1 from that book's
\* available_copies, leaves its total_copies and every other book as they
\* were, and returns a due date.
LendContract ==
    [][LendCalled =>
          LET i == out'.isbn
          IN IF i \notin DOMAIN books
             THEN /\ out'.res = "BookNotFoundError"
                  /\ UNCHANGED <<books, book_order, reservations, users>>
             ELSE IF books[i].available_copies <= 0
             THEN /\ out'.res = "BookNotAvailableError"
                  /\ UNCHANGED <<books, book_order, reservations, users>>
             ELSE /\ out'.res = "ok"
                  /\ DOMAIN books' = DOMAIN books
                  /\ books'[i].available_copies = books[i].available_copies - 1
                  /\ books'[i].total_copies = books[i].total_copies
                  /\ \A j \in DOMAIN books \ {i} : books'[j] = books[j]
                  /\ UNCHANGED <<book_order, reservations>>
                  /\ out'.due # NoDate]_vars

\* C11 witness: a lend was refused for a title whose available_copies is
\* below zero while the user holds a loan of the other title.
LendWitness ==
    /\ out.op \in LendOps
    /\ out.res = "BookNotAvailableError"
    /\ out.isbn \in DOMAIN books
    /\ books[out.isbn].available_copies < 0
    /\ \E u \in DOMAIN users, j \in DOMAIN books :
          /\ j # out.isbn
          /\ j \in DOMAIN users[u].borrowed_books
          /\ books[j].available_copies = books[j].total_copies - 1


\* what the two menus of manage_state lead to
AuthMenuOps == {"register_user", "login"}
MainMenuOps == GuardedOps \cup {"logout"}

\* C12: the CLI main loop offers the auth menu (register, login, exit)
\* exactly while current_user is None and the main menu exactly while a user
\* is logged in: no add, lend, return, reserve, search, list or filter runs
\* with nobody logged in, a successful login is the only step from the auth
\* state to the main state, and logout is the only step back.
MenuMachine ==
    [][/\ (out'.op \in AuthMenuOps \/ out'.res = "auth_menu") =>
              current_user = None
       /\ (out'.op \in MainMenuOps \/ out'.res = "main_menu") =>
              current_user # None
       /\ out'.op \in GuardedOps => out'.res # "login_required"
       /\ (current_user = None /\ current_user' # None) <=>
              (out'.op = "login" /\ out'.res = "True")
       /\ (current_user # None /\ current_user' = None) <=>
              out'.op = "logout"]_vars

\* C12 witness: a login succeeded while a book lent in an earlier session
\* was still out.
MenuWitness ==
    /\ out.op = "login"
    /\ out.res = "True"
    /\ current_user # None
    /\ \E u \in DOMAIN users : users[u].borrowed_books # <<>>

\* C13: whenever a lend, return or reserve handler of either front end reports
\* an error, every book's copy counts, every reservation queue and every
\* user's borrowed_books and reserved_books are as they were before it ran.
FailureAtomic ==
    [][(out'.op \in LendOps \cup ReturnOps \cup ReserveOps /\ out'.res # "ok")
          => UNCHANGED <<books, book_order, reservations, users>>]_vars

\* C14: the CLI return_book handler changes state only when the ISBN is in
\* the current user's borrowed_books; then, if the ISBN is still catalogued,
\* the book's available_copies goes up by exactly 1, the ISBN leaves that
\* user's borrowed_books and no other user's borrowed_books changes; when the
\* ISBN is not in the current user's borrowed_books nothing changes.
ReturnOnlyBorrowed ==
    [][out'.op = "cli_return_book" =>
          LET i == out'.isbn
              u == current_user
          IN IF u = None \/ i \notin DOMAIN users[u].borrowed_books
             THEN UNCHANGED <<books, book_order, reservations, users,
                              current_user>>
             ELSE i \in DOMAIN books =>
                     /\ DOMAIN books' = DOMAIN books
                     /\ books'[i].available_copies =
                            books[i].available_copies + 1
                     /\ books'[i].total_copies = books[i].total_copies
                     /\ \A j \in DOMAIN books \ {i} : books'[j] = books[j]
                     /\ DOMAIN users' = DOMAIN users
                     /\ DOMAIN users'[u].borrowed_books =
                            DOMAIN users[u].borrowed_books \ {i}
                     /\ \A v \in DOMAIN users \ {u} :
                            users'[v].borrowed_books = users[v].borrowed_books]_vars

\* C14 witness: a user returned through the CLI a title of which another user
\* still holds a copy.
ReturnWitness ==
    /\ out.op = "cli_return_book"
    /\ out.res = "ok"
    /\ current_user # None
    /\ out.isbn \notin DOMAIN users[current_user].borrowed_books
    /\ \E v \in DOMAIN users \ {current_user} :
          out.isbn \in DOMAIN users[v].borrowed_books

AddOps == {"add_book", "cli_add_book", "gui_add_book"}

\* C15: Library.add_book(book, count) adds exactly count to total_copies and
\* to available_copies of an ISBN already catalogued and keeps its title,
\* author and genre; for a new ISBN it creates an entry with total_copies =
\* available_copies = count whatever total_copies the Book was constructed
\* with; every other book, every queue and every user record stay as they
\* were.
AddBookEffect ==
    [][(out'.op \in AddOps /\ out'.res = "ok") =>
          LET i == out'.isbn
              c == out'.count
          IN /\ IF i \in DOMAIN books
                THEN /\ DOMAIN books' = DOMAIN books
                     /\ books'[i].total_copies = books[i].total_copies + c
                     /\ books'[i].available_copies =
                            books[i].available_copies + c
                     /\ books'[i].title = books[i].title
                     /\ books'[i].author = books[i].author
                     /\ books'[i].genre = books[i].genre
                ELSE /\ DOMAIN books' = DOMAIN books \cup {i}
                     /\ books'[i].total_copies = c
                     /\ books'[i].available_copies = c
             /\ \A j \in DOMAIN books \ {i} : books'[j] = books[j]
             /\ UNCHANGED <<reservations, users>>]_vars

\* C15 witness: a Book constructed with 1 copy was added with count 2 as a
\* new entry, next to another title with a copy on loan.
AddWitness ==
    /\ out.op = "add_book"
    /\ out.given # out.count
    /\ books[out.isbn].total_copies = out.count
    /\ \E j \in DOMAIN books \ {out.isbn}, u \in DOMAIN users :
          j \in DOMAIN users[u].borrowed_books

\* C16: Library.remove_book(isbn, count) raises BookNotFoundError for an
\* uncatalogued ISBN and BookNotAvailableError when count exceeds
\* available_copies, changing nothing in either case; otherwise it takes
\* exactly count from total_copies and from available_copies (copies out on
\* loan are never removed) and deletes the entry exactly when the resulting
\* total_copies is <= 0.
RemoveBookContract ==
    [][out'.op = "remove_book" =>
          LET i == out'.isbn
              c == out'.count
          IN IF i \notin DOMAIN books
             THEN /\ out'.res = "BookNotFoundError"
                  /\ UNCHANGED <<books, book_order, reservations, users>>
             ELSE IF c > books[i].available_copies
             THEN /\ out'.res = "BookNotAvailableError"
                  /\ UNCHANGED <<books, book_order, reservations, users>>
             ELSE /\ out'.res = "ok"
                  /\ \A j \in DOMAIN books \ {i} :
                         j \in DOMAIN books' /\ books'[j] = books[j]
                  /\ i \in DOMAIN books' <=> books[i].total_copies - c > 0
                  /\ i \in DOMAIN books' =>
                         /\ books'[i].total_copies = books[i].total_copies - c
                         /\ books'[i].available_copies =
                                books[i].available_copies - c
                         /\ books'[i].total_copies - books'[i].available_copies
                                = books[i].total_copies
                                    - books[i].available_copies]_vars

\* C16 witness: one of two copies was removed while the other was out on
\* loan, and the entry stayed.
RemoveWitness ==
    /\ out.op = "remove_book"
    /\ out.res = "ok"
    /\ out.isbn \in DOMAIN books
    /\ books[out.isbn].total_copies = 1
    /\ books[out.isbn].available_copies = 0
    /\ \E u \in DOMAIN users : out.isbn \in DOMAIN users[u].borrowed_books

SearchOps == {"cli_search_books", "gui_search"}

\* C17: every element a search returns is a Book record of the catalogue, so
\* that both front ends display every result, and no search changes the
\* catalogue, a queue or a user record.
SearchReturnsBooks ==
    [][(out'.op \in SearchOps /\ out'.res # "login_required") =>
          /\ \A k \in DOMAIN out'.results :
                 /\ out'.results[k].kind = "Book"
                 /\ out'.results[k].value \in DOMAIN books
          /\ out'.res # "AttributeError"
          /\ UNCHANGED <<books, book_order, reservations, users,
                         current_user>>]_vars

\* the users whose borrowed_books holds the ISBN
Borrowers(i) == {u \in DOMAIN users : i \in DOMAIN users[u].borrowed_books}

\* C18: in every state reached through the CLI handlers, for every catalogued
\* ISBN, total_copies - available_copies is the number of users whose
\* borrowed_books contains that ISBN.
CopiesConserved ==
    \A i \in DOMAIN books :
        books[i].total_copies - books[i].available_copies
            = Cardinality(Borrowers(i))

\* C19: in every reachable state an ISBN whose reservation queue is not empty
\* is catalogued with available_copies = 0: nobody stays queued for a book
\* that has a copy on the shelf.
QueuedOnlyUnavailable ==
    \A i \in DOMAIN reservations :
        reservations[i] # <<>> =>
            i \in DOMAIN books /\ books[i].available_copies = 0

====
